---- MODULE Spec2Model ----
(***************************************************************************)
(* Model of src/vibecode.js: the readline 'line' handler with its agentic  *)
(* loop, the SSE decoder callApi, the tool-call assembler, the dispatcher  *)
(* runTool and the tool handlers.                                          *)
(*                                                                         *)
(* Texts (names, arguments, contents, results) are sequences of string     *)
(* tokens, so that concatenation, trimming and prefixes are computed.      *)
(***************************************************************************)
EXTENDS Integers, Sequences, FiniteSets, TLC

\* ---- bounds ----
MaxIndex == 2
MaxLines == 3
MaxReqs == 2
MaxText == 4
MaxTime == 2
MaxFileLines == 3

\* ---- constants of the program ----
\* grep returns hits.slice(0, 50)
HitLimit == 50

\* ---- texts ----
RECURSIVE TrimStart(_)
TrimStart(s) ==
  IF s # <<>> /\ Head(s) = " " THEN TrimStart(Tail(s)) ELSE s

RECURSIVE TrimEnd(_)
TrimEnd(s) ==
  IF s # <<>> /\ s[Len(s)] = " " THEN TrimEnd(SubSeq(s, 1, Len(s) - 1)) ELSE s

Trim(s) == TrimEnd(TrimStart(s))

IsPrefix(s, t) == Len(s) <= Len(t) /\ SubSeq(t, 1, Len(s)) = s

\* ---- outcomes of a call: a returned value or a thrown exception ----
\* val is the returned text, or the message of the exception.
Return(v) == [threw |-> FALSE, val |-> v]
Throw(m) == [threw |-> TRUE, val |-> m]

\* ---- JSON.parse on the accumulated arguments text ----
\* Token "m" stands for the members of the object ("path":"a.txt", ...).
JSONparse(text) ==
  IF text = <<"{", "m", "}">> THEN Return([kind |-> "object", given |-> TRUE])
  ELSE IF text = <<"{", "}">> THEN Return([kind |-> "object", given |-> FALSE])
  ELSE IF text = <<"null">> THEN Return([kind |-> "null", given |-> FALSE])
  ELSE Throw(<<"SyntaxError">>)

\* ---- the environment a tool handler runs in ----
\* The values of the argument members (path, old, new, all, cmd) are not
\* spelled out in the arguments text; what they select in the file system,
\* the shell and the git work tree is given by an environment record:
\*   exists   the file at args.path can be read / written
\*   count    number of literal occurrences of args.old in the file
\*   all      args.all
\*   cmdOk    the (first) command run by execSync exits with status 0
\*   cmd2Ok   the second command of undo (git checkout) exits with status 0
\*   streams  the error thrown by execSync carries stdout and stderr strings
\*   out,err  captured stdout and stderr
BaseEnv ==
  [exists |-> TRUE, count |-> 1, all |-> FALSE, cmdOk |-> TRUE, cmd2Ok |-> TRUE,
   streams |-> TRUE, out |-> <<"o">>, err |-> <<>>]

Digits == <<"0", "1", "2", "3", "4", "5", "6", "7", "8", "9">>

NumStr == [n \in 0..9 |-> Digits[n + 1]]

PathStr(args) == IF args.given THEN "f" ELSE "undefined"

\* ---- tool implementations ----
read(args, env) ==
  IF args.kind = "null" THEN Throw(<<"TypeError">>)
  ELSE IF ~args.given THEN Throw(<<"ERR_INVALID_ARG_TYPE">>)
  ELSE IF ~env.exists THEN Throw(<<"ENOENT">>)
  ELSE Return(<<"   1| ">> \o env.out)

write(args, env) ==
  IF args.kind = "null" THEN Throw(<<"TypeError">>)
  ELSE IF ~args.given THEN Throw(<<"ERR_INVALID_ARG_TYPE">>)
  ELSE IF ~env.exists THEN Throw(<<"ENOENT">>)
  ELSE Return(<<"ok">>)

\* Mutant of edit: the uniqueness of old is not checked.
edit_NoCount(args, env) ==
  IF args.kind = "null" THEN Throw(<<"TypeError">>)
  ELSE IF ~args.given THEN Throw(<<"ERR_INVALID_ARG_TYPE">>)
  ELSE IF ~env.exists THEN Throw(<<"ENOENT">>)
  ELSE IF env.count = 0 THEN Return(<<"error: ", "old_string not found">>)
  ELSE Return(<<"ok">>)

edit(args, env) ==
  IF args.kind = "null" THEN Throw(<<"TypeError">>)
  ELSE IF ~args.given THEN Throw(<<"ERR_INVALID_ARG_TYPE">>)
  ELSE IF ~env.exists THEN Throw(<<"ENOENT">>)
  ELSE IF env.count = 0 THEN Return(<<"error: ", "old_string not found">>)
  ELSE IF ~env.all /\ env.count > 1
    THEN Return(<<"error: ", "old_string appears ", NumStr[env.count],
                  " times, must be unique (use all=true)">>)
  ELSE Return(<<"ok">>)

\* env.out: the matching paths, newest first, joined by newlines.
glob(args, env) ==
  IF args.kind = "null" THEN Throw(<<"TypeError">>)
  ELSE IF ~args.given \/ ~env.exists \/ env.out = <<>> THEN Return(<<"none">>)
  ELSE Return(env.out)

\* env.out: the first 50 hits joined by newlines.
grep(args, env) ==
  IF args.kind = "null" THEN Throw(<<"TypeError">>)
  ELSE IF ~env.exists \/ env.out = <<>> THEN Return(<<"none">>)
  ELSE Return(env.out)

OrEmpty(s) == IF s = <<>> THEN <<"(empty)">> ELSE s

bash(args, env) ==
  IF args.kind = "null" THEN Throw(<<"TypeError">>)
  ELSE IF args.given /\ env.cmdOk THEN Return(OrEmpty(Trim(env.out)))
  ELSE IF args.given /\ env.streams THEN Return(OrEmpty(Trim(env.out \o env.err)))
  ELSE Throw(<<"TypeError: (error.stdout + error.stderr).trim is not a function">>)

diff(args, env) ==
  IF args.kind = "null" THEN Throw(<<"TypeError">>)
  ELSE bash([kind |-> "object", given |-> TRUE], env)

undo(args, env) ==
  IF args.kind = "null" THEN Throw(<<"TypeError">>)
  ELSE IF ~env.cmdOk THEN Return(<<"error: ", "Command failed: git status">>)
  ELSE IF Trim(env.out) = <<>>
    THEN Return(<<PathStr(args), " has no uncommitted changes">>)
  ELSE IF ~env.cmd2Ok THEN Return(<<"error: ", "Command failed: git checkout">>)
  ELSE Return(<<"restored ", PathStr(args), " from git repository">>)

\* ---- edit on the text of a file ----
\* Texts are sequences of one-character tokens here. The source of a regular
\* expression is a sequence of tokens too: a character, or an escaped
\* character written as one token ("\\." is the source text \. ).
Escaped == ("." :> "\\.") @@ ("$" :> "\\$") @@ ("*" :> "\\*") @@ ("?" :> "\\?")

Unescaped == ("\\." :> ".") @@ ("\\$" :> "$") @@ ("\\*" :> "*") @@ ("\\?" :> "?")

\* Mutant of escapeRegExp: nothing is escaped.
escapeRegExp_Identity(string) == string

escapeRegExp(string) ==
  [j \in 1..Len(string) |->
     IF string[j] \in DOMAIN Escaped THEN Escaped[string[j]] ELSE string[j]]

\* One token of a regular expression against one character.
AtomMatches(tok, c) ==
  IF tok = "." THEN c # "\n"
  ELSE IF tok \in DOMAIN Unescaped THEN c = Unescaped[tok]
  ELSE c = tok

RegExpMatchesAt(re, text, i) ==
  /\ i + Len(re) - 1 <= Len(text)
  /\ \A j \in 1..Len(re) : AtomMatches(re[j], text[i + j - 1])

\* (text.match(new RegExp(re, 'g')) || []).length, scanning from position i
RECURSIVE matchCount(_, _, _)
matchCount(text, re, i) ==
  IF i > Len(text) + 1 THEN 0
  ELSE IF RegExpMatchesAt(re, text, i)
    THEN 1 + matchCount(text, re, i + (IF Len(re) = 0 THEN 1 ELSE Len(re)))
  ELSE matchCount(text, re, i + 1)

\* text.indexOf(old) + 1, or 0 when old does not occur
OccursAt(text, old, i) ==
  /\ i + Len(old) - 1 <= Len(text)
  /\ SubSeq(text, i, i + Len(old) - 1) = old

indexOf(text, old) ==
  IF \E i \in 1..(Len(text) + 1) : OccursAt(text, old, i)
    THEN CHOOSE i \in 1..(Len(text) + 1) :
           /\ OccursAt(text, old, i)
           /\ \A j \in 1..(i - 1) : ~OccursAt(text, old, j)
  ELSE 0

includes(text, old) == indexOf(text, old) # 0

\* The replacement text of String.prototype.replace: $$ is a dollar sign, $&
\* the matched text, $` the text before the match and $' the text after it.
RECURSIVE GetSubstitution(_, _, _, _)
GetSubstitution(newStr, matched, before, after) ==
  IF newStr = <<>> THEN <<>>
  ELSE IF Head(newStr) = "$" /\ Len(newStr) >= 2 /\ newStr[2] \in {"$", "&", "`", "'"}
    THEN (CASE newStr[2] = "$" -> <<"$">>
            [] newStr[2] = "&" -> matched
            [] newStr[2] = "`" -> before
            [] newStr[2] = "'" -> after)
         \o GetSubstitution(Tail(Tail(newStr)), matched, before, after)
  ELSE <<Head(newStr)>> \o GetSubstitution(Tail(newStr), matched, before, after)

\* text.replace(old, newStr) with a string pattern: the first occurrence only
replace(text, old, newStr) ==
  LET i == indexOf(text, old)
      before == SubSeq(text, 1, i - 1)
      after == SubSeq(text, i + Len(old), Len(text))
  IN IF i = 0 THEN text
     ELSE before \o GetSubstitution(newStr, old, before, after) \o after

\* Mutant of split: the text is cut at the first occurrence only.
split_Once(text, sep) ==
  IF sep = <<>> THEN [j \in 1..Len(text) |-> <<text[j]>>]
  ELSE LET i == indexOf(text, sep)
       IN IF i = 0 THEN <<text>>
          ELSE <<SubSeq(text, 1, i - 1), SubSeq(text, i + Len(sep), Len(text))>>

\* text.split(sep)
RECURSIVE split(_, _)
split(text, sep) ==
  IF sep = <<>> THEN [j \in 1..Len(text) |-> <<text[j]>>]
  ELSE LET i == indexOf(text, sep)
       IN IF i = 0 THEN <<text>>
          ELSE <<SubSeq(text, 1, i - 1)>>
               \o split(SubSeq(text, i + Len(sep), Len(text)), sep)

\* parts.join(sep)
RECURSIVE join(_, _)
join(parts, sep) ==
  IF parts = <<>> THEN <<>>
  ELSE IF Len(parts) = 1 THEN parts[1]
  ELSE parts[1] \o sep \o join(Tail(parts), sep)

\* edit on a file that holds text: the string returned and the text of the
\* file afterwards.
editText(text, old, newStr, all) ==
  IF ~includes(text, old)
    THEN [val |-> <<"error: ", "old_string not found">>, disk |-> text]
  ELSE LET count == matchCount(text, escapeRegExp(old), 1) IN
       IF ~all /\ count > 1
         THEN [val |-> <<"error: ", "old_string appears ", NumStr[count],
                         " times, must be unique (use all=true)">>,
               disk |-> text]
       ELSE [val |-> <<"ok">>,
             disk |-> IF all THEN join(split(text, old), newStr)
                      ELSE replace(text, old, newStr)]

\* ---- glob on a directory tree ----
\* A directory is [ok, entries]: ok tells whether readdirSync lists it, and
\* entries are its entries in the order readdirSync gives them. An entry is
\* [name, kind, mtime, dir]: kind is "file", "dir", "fifo" (statSync answers
\* and isDirectory() is false) or "noent" (statSync throws); dir is the
\* directory behind an entry of kind "dir". Paths are sequences of characters.
NoDir == [ok |-> FALSE, entries |-> <<>>]

\* path.join(dir, file), and path.relative('.', ...) of the result
pathJoin(dir, file) == IF dir = <<".">> THEN file ELSE dir \o <<"/">> \o file

\* pattern.replace(/\./g, '\\.')
EscapeDots(pattern) ==
  [j \in 1..Len(pattern) |-> IF pattern[j] = "." THEN "\\." ELSE pattern[j]]

\* .replace(/\*\*/g, '__DOUBLE_STAR__')
RECURSIVE MarkDoubleStars(_)
MarkDoubleStars(p) ==
  IF p = <<>> THEN <<>>
  ELSE IF Len(p) >= 2 /\ p[1] = "*" /\ p[2] = "*"
    THEN <<"__DOUBLE_STAR__">> \o MarkDoubleStars(Tail(Tail(p)))
  ELSE <<Head(p)>> \o MarkDoubleStars(Tail(p))

\* .replace(/\*/g, '[^/]*').replace(/__DOUBLE_STAR__/g, '.*').replace(/\?/g, '.')
globRegExp(pattern) ==
  LET p == MarkDoubleStars(EscapeDots(pattern))
  IN [j \in 1..Len(p) |->
        CASE p[j] = "*" -> "[^/]*"
          [] p[j] = "__DOUBLE_STAR__" -> ".*"
          [] p[j] = "?" -> "."
          [] OTHER -> p[j]]

\* new RegExp('^' + re + '$').test(str)
RECURSIVE RegExpTest(_, _)
RegExpTest(re, str) ==
  IF re = <<>> THEN str = <<>>
  ELSE IF Head(re) \in {".*", "[^/]*"}
    THEN \E k \in 0..Len(str) :
           /\ \A j \in 1..k : str[j] # (IF Head(re) = ".*" THEN "\n" ELSE "/")
           /\ RegExpTest(Tail(re), SubSeq(str, k + 1, Len(str)))
  ELSE /\ str # <<>>
       /\ AtomMatches(Head(re), Head(str))
       /\ RegExpTest(Tail(re), Tail(str))

matchPattern(filepath, pattern) == RegExpTest(globRegExp(pattern), filepath)

\* The directory readdirSync(basePath) lists, with the current directory root.
DirAt(root, basePath) ==
  IF basePath = <<".">> THEN root
  ELSE IF \E j \in 1..Len(root.entries) :
            root.entries[j].name = basePath /\ root.entries[j].kind = "dir"
    THEN root.entries[CHOOSE j \in 1..Len(root.entries) :
                        root.entries[j].name = basePath].dir
  ELSE NoDir

\* walk(dir) of glob: the results pushed, in order.
RECURSIVE globWalk(_, _, _)
RECURSIVE globWalkEntries(_, _, _)
globWalk(dir, node, pattern) ==
  IF ~node.ok THEN <<>> ELSE globWalkEntries(dir, node.entries, pattern)

globWalkEntries(dir, entries, pattern) ==
  IF entries = <<>> THEN <<>>
  ELSE LET e == Head(entries)
           filepath == pathJoin(dir, e.name)
           here == IF e.kind = "noent" THEN <<>>
                   ELSE IF e.kind = "dir" THEN globWalk(filepath, e.dir, pattern)
                   ELSE IF matchPattern(filepath, pattern)
                     THEN <<[path |-> filepath, mtime |-> e.mtime]>>
                   ELSE <<>>
       IN here \o globWalkEntries(dir, Tail(entries), pattern)

\* results.sort((a, b) => b.mtime - a.mtime): stable, newest first
RECURSIVE SortInto(_, _)
SortInto(sorted, results) ==
  IF results = <<>> THEN sorted
  ELSE LET r == Head(results)
           n == Cardinality({j \in 1..Len(sorted) : sorted[j].mtime >= r.mtime})
       IN SortInto(SubSeq(sorted, 1, n) \o <<r>> \o SubSeq(sorted, n + 1, Len(sorted)),
                   Tail(results))

\* Mutant of sortResults: the results stay in walk order.
sortResults_WalkOrder(results) == results

sortResults(results) == SortInto(<<>>, results)

\* glob on the tree root with path basePath and pattern pat: the text returned.
globTree(root, basePath, pat) ==
  LET results == sortResults(globWalk(basePath, DirAt(root, basePath), pat))
      text == join([j \in 1..Len(results) |-> results[j].path], <<"\n">>)
  IN IF text = <<>> THEN <<"none">> ELSE text

\* ---- grep on a directory tree ----
\* The entries of the tree carry the lines of the file, content.split('\n');
\* kind "unreadable" is a file that statSync answers for and readFileSync
\* throws on.
\* String(n)
RECURSIVE Decimal(_)
Decimal(n) ==
  IF n < 10 THEN <<Digits[n + 1]>>
  ELSE Decimal(n \div 10) \o <<Digits[(n % 10) + 1]>>

\* pattern.test(line)
RegExpSearch(re, line) ==
  \E i \in 1..(Len(line) + 1) : RegExpMatchesAt(re, line, i)

\* lines.forEach((line, idx) => ...), from index idx on: the hits pushed
RECURSIVE grepLines(_, _, _, _)
grepLines(filepath, lines, idx, re) ==
  IF idx > Len(lines) THEN <<>>
  ELSE (IF RegExpSearch(re, lines[idx])
          THEN <<filepath \o <<":">> \o Decimal(idx) \o <<":">> \o TrimEnd(lines[idx])>>
          ELSE <<>>)
       \o grepLines(filepath, lines, idx + 1, re)

\* walk(dir) of grep: the hits pushed, in order.
RECURSIVE grepWalk(_, _, _)
RECURSIVE grepWalkEntries(_, _, _)
grepWalk(dir, node, re) ==
  IF ~node.ok THEN <<>> ELSE grepWalkEntries(dir, node.entries, re)

grepWalkEntries(dir, entries, re) ==
  IF entries = <<>> THEN <<>>
  ELSE LET e == Head(entries)
           filepath == pathJoin(dir, e.name)
           here == IF e.kind \in {"noent", "unreadable"} THEN <<>>
                   ELSE IF e.kind = "dir" THEN grepWalk(filepath, e.dir, re)
                   ELSE grepLines(filepath, e.lines, 1, re)
       IN here \o grepWalkEntries(dir, Tail(entries), re)

\* Mutant of slice: the whole array is kept.
slice_All(hits, n) == hits

\* hits.slice(0, n)
slice(hits, n) == SubSeq(hits, 1, IF Len(hits) < n THEN Len(hits) ELSE n)

\* grep on the tree root with path basePath and the regular expression re:
\* the text returned.
grepTree(root, basePath, re) ==
  LET hits == grepWalk(basePath, DirAt(root, basePath), re)
      text == join(slice(hits, HitLimit), <<"\n">>)
  IN IF text = <<>> THEN <<"none">> ELSE text

\* ---- read on the lines of a file ----
\* An optional numeric argument is [given, n]; lines is the file text after
\* split('\n').
\* arg || dflt
OrDefault(arg, dflt) == IF arg.given /\ arg.n # 0 THEN arg.n ELSE dflt

\* arr.slice(start, end), for start and end that are not negative
sliceRange(arr, start, end) ==
  SubSeq(arr, start + 1, IF end < Len(arr) THEN end ELSE Len(arr))

\* str.padStart(width)
padStart(str, width) ==
  IF Len(str) >= width THEN str
  ELSE [j \in 1..(width - Len(str)) |-> " "] \o str

\* read on a file that holds lines: the text returned
readLines(lines, offsetArg, limitArg) ==
  LET offset == OrDefault(offsetArg, 0)
      limit == OrDefault(limitArg, Len(lines))
      selected == sliceRange(lines, offset, offset + limit)
  IN join([idx \in 1..Len(selected) |->
             padStart(Decimal(offset + (idx - 1) + 1), 4) \o <<"| ">> \o selected[idx]],
          <<"\n">>)

\* ---- undo on a git work tree ----
\* A work tree is [repo, lock, files]: repo tells whether the directory is a
\* git repository, lock whether the index is locked (git checkout then
\* fails), and files gives each path its state: "clean", "modified" (differs
\* from the committed version) or "untracked".
\* execSync(`git status --porcelain ${filepath}`)
gitStatus(filepath, wt) ==
  IF ~wt.repo THEN Throw(<<"Command failed: git status --porcelain ", filepath>>)
  ELSE IF wt.files[filepath] = "clean" THEN Return(<<>>)
  ELSE IF wt.files[filepath] = "modified" THEN Return(<<" ", "M ", filepath, "\n">>)
  ELSE Return(<<"?? ", filepath, "\n">>)

\* execSync(`git checkout -- ${filepath}`): val is the work tree afterwards
gitCheckout(filepath, wt) ==
  IF ~wt.repo \/ wt.lock \/ wt.files[filepath] = "untracked"
    THEN Throw(<<"Command failed: git checkout -- ", filepath>>)
  ELSE Return([wt EXCEPT !.files[filepath] = "clean"])

\* String.prototype.trim on the output of a command
TrimOutput(s) == Trim(SelectSeq(s, LAMBDA c : c # "\n"))

\* Mutant of undoGit: the checkout is run whatever the status says.
undoGit_NoStatusCheck(filepath, wt) ==
  LET status == gitStatus(filepath, wt) IN
  IF status.threw
    THEN [val |-> <<"error: ">> \o status.val, cmds |-> <<"status">>, wt |-> wt]
  ELSE LET co == gitCheckout(filepath, wt) IN
       IF co.threw
         THEN [val |-> <<"error: ">> \o co.val, cmds |-> <<"status", "checkout">>,
               wt |-> wt]
       ELSE [val |-> <<"restored ", filepath, " from git repository">>,
             cmds |-> <<"status", "checkout">>, wt |-> co.val]

\* undo on the work tree wt: the string returned, the commands run and the
\* work tree afterwards.
undoGit(filepath, wt) ==
  LET status == gitStatus(filepath, wt) IN
  IF status.threw
    THEN [val |-> <<"error: ">> \o status.val, cmds |-> <<"status">>, wt |-> wt]
  ELSE IF TrimOutput(status.val) = <<>>
    THEN [val |-> <<filepath, " has no uncommitted changes">>,
          cmds |-> <<"status">>, wt |-> wt]
  ELSE LET co == gitCheckout(filepath, wt) IN
       IF co.threw
         THEN [val |-> <<"error: ">> \o co.val, cmds |-> <<"status", "checkout">>,
               wt |-> wt]
       ELSE [val |-> <<"restored ", filepath, " from git repository">>,
             cmds |-> <<"status", "checkout">>, wt |-> co.val]

\* ---- tool definitions ----
TOOLS ==
  (<<"re", "ad">> :> "read") @@ (<<"wr", "ite">> :> "write") @@
  (<<"ed", "it">> :> "edit") @@ (<<"gl", "ob">> :> "glob") @@
  (<<"gr", "ep">> :> "grep") @@ (<<"ba", "sh">> :> "bash") @@
  (<<"di", "ff">> :> "diff") @@ (<<"un", "do">> :> "undo")

CallFn(fn, args, env) ==
  CASE fn = "read" -> read(args, env)
    [] fn = "write" -> write(args, env)
    [] fn = "edit" -> edit(args, env)
    [] fn = "glob" -> glob(args, env)
    [] fn = "grep" -> grep(args, env)
    [] fn = "bash" -> bash(args, env)
    [] fn = "diff" -> diff(args, env)
    [] fn = "undo" -> undo(args, env)

\* Mutant of runTool: the lookup TOOLS[name].fn is outside the try block.
runTool_LookupOutsideTry(name, args, env) ==
  IF name \notin DOMAIN TOOLS
    THEN [threw |-> TRUE, val |-> <<"TypeError">>, ran |-> "none"]
  ELSE LET body == CallFn(TOOLS[name], args, env)
       IN [threw |-> FALSE, ran |-> TOOLS[name],
           val |-> IF body.threw THEN <<"error: ">> \o body.val ELSE body.val]

\* The result of runTool: threw/val as above, ran = the handler that was
\* invoked ("none" when the lookup TOOLS[name].fn failed).
runTool(name, args, env) ==
  LET known == name \in DOMAIN TOOLS
      body == IF known THEN CallFn(TOOLS[name], args, env)
              ELSE Throw(<<"Cannot read properties of undefined (reading 'fn')">>)
      ran == IF known THEN TOOLS[name] ELSE "none"
  IN IF body.threw
       THEN [threw |-> FALSE, val |-> <<"error: ">> \o body.val, ran |-> ran]
       ELSE [threw |-> FALSE, val |-> body.val, ran |-> ran]

\* ---- tool-call assembly (the body of the for-await loop) ----
\* toolCalls is the sparse array: a function whose domain is the set of
\* indices that have been assigned.
NoId == "undefined"

NewSlot(tc) == [id |-> tc.id, name |-> <<>>, arguments |-> <<>>]

\* Mutant of AddFragment: the arguments fragment is assigned, not appended.
AddFragment_Assign(toolCalls, tc) ==
  LET base == IF tc.index \in DOMAIN toolCalls THEN toolCalls
              ELSE (tc.index :> NewSlot(tc)) @@ toolCalls
  IN IF ~tc.hasFn THEN Throw(<<"TypeError">>)
     ELSE Return([base EXCEPT ![tc.index].name = @ \o tc.name,
                              ![tc.index].arguments = tc.arguments])

AddFragment(toolCalls, tc) ==
  LET base == IF tc.index \in DOMAIN toolCalls THEN toolCalls
              ELSE (tc.index :> NewSlot(tc)) @@ toolCalls
  IN IF ~tc.hasFn THEN Throw(<<"TypeError">>)
     ELSE Return([base EXCEPT ![tc.index].name = @ \o tc.name,
                              ![tc.index].arguments = @ \o tc.arguments])

RECURSIVE AddFragments(_, _)
AddFragments(toolCalls, tcs) ==
  IF tcs = <<>> THEN Return(toolCalls)
  ELSE LET r == AddFragment(toolCalls, Head(tcs))
       IN IF r.threw THEN r ELSE AddFragments(r.val, Tail(tcs))

\* Mutant of ProcessChunk: a chunk without delta, or a fragment without
\* function, is passed over instead of raising the TypeError.
ProcessChunk_SkipsInvalid(fullContent, toolCalls, chunk) ==
  IF ~chunk.valid
    THEN Return([fullContent |-> fullContent, toolCalls |-> toolCalls])
  ELSE LET r == AddFragments(toolCalls, chunk.tool_calls)
       IN IF r.threw
            THEN Return([fullContent |-> fullContent, toolCalls |-> toolCalls])
          ELSE Return([fullContent |-> fullContent \o chunk.content,
                       toolCalls |-> r.val])

\* One iteration of the loop over the chunks: the new accumulators, or the
\* TypeError of a chunk without choices[0].delta or a fragment without function.
ProcessChunk(fullContent, toolCalls, chunk) ==
  IF ~chunk.valid THEN Throw(<<"TypeError">>)
  ELSE LET r == AddFragments(toolCalls, chunk.tool_calls)
       IN IF r.threw THEN r
          ELSE Return([fullContent |-> fullContent \o chunk.content,
                       toolCalls |-> r.val])

ArrayLength(toolCalls) ==
  IF DOMAIN toolCalls = {} THEN 0
  ELSE 1 + CHOOSE i \in DOMAIN toolCalls : \A j \in DOMAIN toolCalls : j <= i

\* toolCalls.filter(Boolean), scanning positions i .. length-1
RECURSIVE FilterFrom(_, _)
FilterFrom(toolCalls, i) ==
  IF i >= ArrayLength(toolCalls) THEN <<>>
  ELSE (IF i \in DOMAIN toolCalls THEN <<toolCalls[i]>> ELSE <<>>)
       \o FilterFrom(toolCalls, i + 1)

\* Mutant of FilterBoolean: the array is kept as it is, holes included.
FilterBoolean_KeepHoles(toolCalls) ==
  [j \in 1..ArrayLength(toolCalls) |->
     IF j - 1 \in DOMAIN toolCalls THEN toolCalls[j - 1]
     ELSE [id |-> NoId, name |-> <<>>, arguments |-> <<>>]]

FilterBoolean(toolCalls) == FilterFrom(toolCalls, 0)

\* ---- callApi: the lines of the response ----
\* A line after trim(): text is "" (blank), "data: [DONE]", "data: " followed
\* by a payload (json tells whether JSON.parse accepts it), or anything else.
\* Mutant of DecodeLine: the payload that JSON.parse rejects is passed on.
DecodeLine_BadJsonYields(line) ==
  IF line.text = "" \/ line.text = "data: [DONE]" THEN [act |-> "skip"]
  ELSE IF line.text = "data: " THEN [act |-> "yield", chunk |-> line.chunk]
  ELSE [act |-> "skip"]

DecodeLine(line) ==
  IF line.text = "" \/ line.text = "data: [DONE]" THEN [act |-> "skip"]
  ELSE IF line.text = "data: "
    THEN IF line.json THEN [act |-> "yield", chunk |-> line.chunk]
         ELSE [act |-> "report"]
  ELSE [act |-> "skip"]

\* Mutant of callApiStart: the key is not checked before the request.
callApiStart_NoCheck(key) == Return(<<"request">>)

callApiStart(key) ==
  IF ~key THEN Throw(<<"MISTRAL_API_KEY is not set in environment">>)
  ELSE Return(<<"request">>)

callApiStatus(status) ==
  IF status # "200" THEN Throw(<<"Mistral API Error ", status>>)
  ELSE Return(<<"stream">>)

\* ---- inputs ----
\* Lines typed by the user, before trim().
RawLines ==
  { <<>>, <<" ">>, <<"/quit">>, <<"exit">>, <<"/clear">>, <<" ", "/clear", " ">>,
    <<"q">>, <<" ", "q", " ">> }

TC(i, id, nm, ar) ==
  [index |-> i, id |-> id, hasFn |-> TRUE, name |-> nm, arguments |-> ar]

NoFn(i, id) ==
  [index |-> i, id |-> id, hasFn |-> FALSE, name |-> <<>>, arguments |-> <<>>]

Chunk(c, tcs) == [valid |-> TRUE, content |-> c, tool_calls |-> tcs]

NoDelta == [valid |-> FALSE, content |-> <<>>, tool_calls |-> <<>>]

DataLine(chunk) == [text |-> "data: ", json |-> TRUE, chunk |-> chunk]

OtherLine(t) == [text |-> t, json |-> FALSE, chunk |-> NoDelta]

GLOB == <<"gl", "ob">>
BASH == <<"ba", "sh">>
EDIT == <<"ed", "it">>
OBJ == <<"{", "m", "}">>

\* Response bodies the server sends in the runs of Spec: each is the sequence
\* of its lines.
TextBodies ==
  { <<DataLine(Chunk(<<"x">>, <<>>)), OtherLine("data: [DONE]")>>,
    <<OtherLine(""), DataLine(Chunk(<<"x">>, <<>>)), OtherLine("data: "),
      DataLine(Chunk(<<"y">>, <<>>))>>,
    <<DataLine(Chunk(<<"x">>, <<>>)), DataLine(NoDelta)>>,
    <<DataLine(Chunk(<<>>, <<TC(0, "a", GLOB, <<"{">>)>>)),
      DataLine(Chunk(<<>>, <<NoFn(0, NoId)>>))>> }

ToolBodies ==
  { \* one call
    <<DataLine(Chunk(<<>>, <<TC(0, "a", GLOB, OBJ)>>))>>,
    \* one call at a sparse index, split over two chunks
    <<DataLine(Chunk(<<"x">>, <<TC(MaxIndex, "b", <<"ba">>, <<"{">>)>>)),
      DataLine(Chunk(<<>>, <<TC(MaxIndex, NoId, <<"sh">>, <<"m", "}">>)>>))>>,
    \* two calls in one chunk, the second names no registered tool
    <<DataLine(Chunk(<<>>, <<TC(0, "a", EDIT, OBJ),
                             TC(MaxIndex, "b", <<"no", "pe">>, <<"{", "}">>)>>))>>,
    \* two calls arriving in the order [MaxIndex, 0]; the arguments of the
    \* call at index 0 are cut short
    <<DataLine(Chunk(<<>>, <<TC(MaxIndex, "b", GLOB, OBJ)>>)),
      DataLine(Chunk(<<>>, <<TC(0, "a", BASH, <<"{", "m">>)>>))>>,
    \* two calls, the arguments of the second are null
    <<DataLine(Chunk(<<>>, <<TC(0, "a", BASH, OBJ)>>)),
      DataLine(Chunk(<<>>, <<TC(MaxIndex, "b", GLOB, <<"null">>)>>))>> }

\* Environments of the tool runs of Spec.
Envs ==
  { BaseEnv,
    [BaseEnv EXCEPT !.exists = FALSE, !.count = 2, !.cmdOk = FALSE, !.out = <<>>] }

\* ---- the state ----
VARIABLES
  messages,   \* the conversation (main, line 347)
  hs,         \* the invocations of the 'line' handler: position and locals
  sync,       \* the invocation running a synchronous section, 0 if none
  hasKey,     \* process.env.MISTRAL_API_KEY is set
  closed,     \* rl.close() was called: the process has exited
  nCalls,     \* number of calls of callApi
  net,        \* number of requests written to the network
  ev          \* the last step taken

vars == <<messages, hs, sync, hasKey, closed, nCalls, net, ev>>

Handlers == {1, 2}

\* pc: free | rejected | awaitResponse | streaming | tools; rest: the lines of the
\* response body not yet read; fullContent, toolCalls: the accumulators of the
\* turn; calls, k: the compacted tool calls and the position in them; hist:
\* the tool-call fragments the turn has received, in arrival order; lines: the
\* lines of the response that callApi has read, in arrival order; sent: the
\* conversation as it was when the request of the turn was sent.
FreeH ==
  [pc |-> "free", rest |-> <<>>, fullContent |-> <<>>, toolCalls |-> <<>>,
   calls |-> <<>>, k |-> 0, hist |-> <<>>, lines |-> <<>>, sent |-> <<>>]

UserMsg(c) == [role |-> "user", content |-> c]

\* Mutant of AssistantMsg: tool_calls is set whatever the list holds.
AssistantMsg_AlwaysToolCalls(c, calls) ==
  [role |-> "assistant", content |-> c, tool_calls |-> calls]

AssistantMsg(c, calls) ==
  IF Len(calls) > 0 THEN [role |-> "assistant", content |-> c, tool_calls |-> calls]
  ELSE [role |-> "assistant", content |-> c]

ToolMsg(call, result) ==
  [role |-> "tool", tool_call_id |-> call.id, name |-> call.name, content |-> result]

Init ==
  /\ messages = <<>>
  /\ hs = [h \in Handlers |-> FreeH]
  /\ sync = 0
  /\ hasKey \in BOOLEAN
  /\ closed = FALSE
  /\ nCalls = 0
  /\ net = 0
  /\ ev = [kind |-> "init"]

HasFree == \E h \in Handlers : hs[h].pc = "free"

\* The invocation a new 'line' event runs in.
NextH ==
  CHOOSE h \in Handlers :
    hs[h].pc = "free" /\ \A g \in Handlers : hs[g].pc = "free" => h <= g

Idle == ~closed /\ sync = 0

\* Mutant of Caught: the catch block rolls the last message back.
Caught_Rollback(h, msgs, src, cs) ==
  /\ messages' = SubSeq(msgs, 1, Len(msgs) - 1)
  /\ hs' = [hs EXCEPT ![h] = FreeH]
  /\ sync' = 0
  /\ ev' = [kind |-> "caught", h |-> h, src |-> src, calls |-> cs,
            sent |-> hs[h].sent]

\* catch (err) { console.log(...) } ; rl.prompt()
Caught(h, msgs, src, cs) ==
  /\ messages' = msgs
  /\ hs' = [hs EXCEPT ![h] = FreeH]
  /\ sync' = 0
  /\ ev' = [kind |-> "caught", h |-> h, src |-> src, calls |-> cs,
            sent |-> hs[h].sent]

\* One pass of the while loop up to its first suspension: callApi is entered,
\* and either throws for the missing key or writes the request. The rejection
\* of the missing key reaches the catch block in a later microtask: the
\* 'line' events that readline emits from the same input chunk run before it.
Request(h, msgs, e) ==
  LET r == callApiStart(hasKey) IN
  /\ nCalls' = nCalls + 1
  /\ messages' = msgs
  /\ sync' = 0
  /\ IF r.threw
       THEN /\ hs' = [hs EXCEPT ![h] = [FreeH EXCEPT !.pc = "rejected",
                                                          !.sent = msgs]]
            /\ net' = net
            /\ ev' = [kind |-> "thrown", h |-> h, src |-> "key"]
       ELSE /\ hs' = [hs EXCEPT ![h] = [FreeH EXCEPT !.pc = "awaitResponse",
                                                          !.sent = msgs]]
            /\ net' = net + 1
            /\ ev' = e

\* The rejection raised by callApi is delivered to the catch block.
Rejected(h) ==
  /\ Idle /\ hs[h].pc = "rejected"
  /\ Caught(h, messages, "key", <<>>)
  /\ UNCHANGED <<hasKey, closed, nCalls, net>>

LineEmpty(raw) ==
  /\ Idle /\ HasFree
  /\ Trim(raw) = <<>>
  /\ ev' = [kind |-> "prompt"]
  /\ UNCHANGED <<messages, hs, sync, hasKey, closed, nCalls, net>>

LineQuit(raw) ==
  /\ Idle /\ HasFree
  /\ Trim(raw) \in {<<"/quit">>, <<"exit">>}
  /\ closed' = TRUE
  /\ ev' = [kind |-> "close"]
  /\ UNCHANGED <<messages, hs, sync, hasKey, nCalls, net>>

LineClear(raw) ==
  /\ Idle /\ HasFree
  /\ Trim(raw) = <<"/clear">>
  /\ messages' = <<>>
  /\ ev' = [kind |-> "clear"]
  /\ UNCHANGED <<hs, sync, hasKey, closed, nCalls, net>>

LineQuery(raw) ==
  /\ Idle /\ HasFree
  /\ nCalls < MaxReqs
  /\ Trim(raw) \notin {<<>>, <<"/quit">>, <<"exit">>, <<"/clear">>}
  /\ Request(NextH, Append(messages, UserMsg(Trim(raw))),
             [kind |-> "request", h |-> NextH])
  /\ UNCHANGED <<hasKey, closed>>

\* The response head arrives: status 200 with the body to come, another
\* status, or a socket error.
Response(h, status, body) ==
  /\ Idle /\ hs[h].pc = "awaitResponse"
  /\ status = "200" \/ body = <<>>
  /\ LET r == callApiStatus(status) IN
     IF r.threw THEN Caught(h, messages, "status", <<>>)
     ELSE /\ hs' = [hs EXCEPT ![h].pc = "streaming", ![h].rest = body]
          /\ ev' = [kind |-> "stream", h |-> h]
          /\ UNCHANGED <<messages, sync>>
  /\ UNCHANGED <<hasKey, closed, nCalls, net>>

\* The request fails on the socket: req.on('error', reject).
RequestError(h) ==
  /\ Idle /\ hs[h].pc = "awaitResponse"
  /\ Caught(h, messages, "socket", <<>>)
  /\ UNCHANGED <<hasKey, closed, nCalls, net>>

\* One line of the response body: callApi decodes it and, when it yields a
\* chunk, the loop body accumulates it.
StreamLine(h) ==
  /\ Idle /\ hs[h].pc = "streaming"
  /\ hs[h].rest # <<>>
  /\ LET d == DecodeLine(Head(hs[h].rest)) IN
     IF d.act # "yield"
       THEN /\ hs' = [hs EXCEPT ![h].rest = Tail(@),
                                ![h].lines = Append(@, Head(hs[h].rest))]
            /\ ev' = [kind |-> "line", h |-> h, act |-> d.act]
            /\ UNCHANGED <<messages, sync>>
       ELSE LET r == ProcessChunk(hs[h].fullContent, hs[h].toolCalls, d.chunk) IN
            IF r.threw THEN Caught(h, messages, "chunk", <<>>)
            ELSE /\ hs' = [hs EXCEPT ![h].rest = Tail(@),
                                     ![h].fullContent = r.val.fullContent,
                                     ![h].toolCalls = r.val.toolCalls,
                                     ![h].hist = @ \o d.chunk.tool_calls,
                                     ![h].lines = Append(@, Head(hs[h].rest))]
                 /\ ev' = [kind |-> "line", h |-> h, act |-> d.act]
                 /\ UNCHANGED <<messages, sync>>
  /\ UNCHANGED <<hasKey, closed, nCalls, net>>

\* The response ends: compaction, the assistant message, and either the break
\* (no tool calls) or the entry of the tool loop.
StreamEnd(h) ==
  /\ Idle /\ hs[h].pc = "streaming"
  /\ hs[h].rest = <<>>
  /\ LET calls == FilterBoolean(hs[h].toolCalls)
         msg == AssistantMsg(hs[h].fullContent, calls)
     IN /\ messages' = Append(messages, msg)
        /\ IF Len(calls) = 0
             THEN /\ hs' = [hs EXCEPT ![h] = FreeH]
                  /\ sync' = 0
                  /\ ev' = [kind |-> "break", h |-> h, calls |-> calls,
                            hist |-> hs[h].hist, lines |-> hs[h].lines]
             ELSE /\ hs' = [hs EXCEPT ![h] = [FreeH EXCEPT !.pc = "tools",
                                                          !.calls = calls, !.k = 1]]
                  /\ sync' = h
                  /\ ev' = [kind |-> "assistant", h |-> h, calls |-> calls,
                            hist |-> hs[h].hist, lines |-> hs[h].lines]
  /\ UNCHANGED <<hasKey, closed, nCalls, net>>

\* One iteration of the loop over the tool calls; after the last one the
\* while loop goes round and the next request is written.
ToolStep(h, env) ==
  /\ ~closed /\ sync = h /\ hs[h].pc = "tools"
  /\ LET calls == hs[h].calls
         k == hs[h].k
         call == calls[k]
         p == JSONparse(call.arguments)
     IN IF p.threw THEN Caught(h, messages, "parse", calls) /\ UNCHANGED <<nCalls, net>>
        ELSE IF p.val.kind = "null"
          THEN Caught(h, messages, "values", calls) /\ UNCHANGED <<nCalls, net>>
        ELSE LET res == runTool(call.name, p.val, env)
                 msgs == Append(messages, ToolMsg(call, res.val))
                 e == [kind |-> "tool", h |-> h, k |-> k, calls |-> calls,
                       env |-> env, ran |-> res.ran, val |-> res.val]
             IN IF res.threw
                  THEN Caught(h, messages, "runTool", calls) /\ UNCHANGED <<nCalls, net>>
                ELSE IF k < Len(calls)
                  THEN /\ messages' = msgs
                       /\ hs' = [hs EXCEPT ![h].k = k + 1]
                       /\ ev' = e
                       /\ UNCHANGED <<sync, nCalls, net>>
                ELSE Request(h, msgs, e)
  /\ UNCHANGED <<hasKey, closed>>

Next ==
  \/ \E raw \in RawLines : LineEmpty(raw)
  \/ \E raw \in RawLines : LineQuit(raw)
  \/ \E raw \in RawLines : LineClear(raw)
  \/ \E raw \in RawLines : LineQuery(raw)
  \/ \E h \in Handlers : Rejected(h)
  \/ \E h \in Handlers : Response(h, "500", <<>>)
  \/ \E h \in Handlers : RequestError(h)
  \/ \E h \in Handlers, body \in TextBodies : Response(h, "200", body)
  \/ \E h \in Handlers, body \in ToolBodies :
        nCalls < MaxReqs /\ Response(h, "200", body)
  \/ \E h \in Handlers : StreamLine(h)
  \/ \E h \in Handlers : StreamEnd(h)
  \/ \E h \in Handlers, env \in Envs : ToolStep(h, env)

Spec == Init /\ [][Next]_vars

\* ---- the same program with a user who waits for the prompt ----
\* A line is typed only when no invocation of the handler is in flight.
AllFree == \A h \in Handlers : hs[h].pc = "free"

NextSeq ==
  \/ AllFree /\ \E raw \in RawLines : LineEmpty(raw)
  \/ AllFree /\ \E raw \in RawLines : LineQuit(raw)
  \/ AllFree /\ \E raw \in RawLines : LineClear(raw)
  \/ AllFree /\ \E raw \in RawLines : LineQuery(raw)
  \/ \E h \in Handlers : Rejected(h)
  \/ \E h \in Handlers : Response(h, "500", <<>>)
  \/ \E h \in Handlers : RequestError(h)
  \/ \E h \in Handlers, body \in TextBodies : Response(h, "200", body)
  \/ \E h \in Handlers, body \in ToolBodies :
        nCalls < MaxReqs /\ Response(h, "200", body)
  \/ \E h \in Handlers : StreamLine(h)
  \/ \E h \in Handlers : StreamEnd(h)
  \/ \E h \in Handlers, env \in Envs : ToolStep(h, env)

SpecSeq == Init /\ [][NextSeq]_vars

\* ---- helpers of the properties ----
Last(s) == s[Len(s)]

InFlight == {h \in Handlers : hs[h].pc # "free"}

\* The last m messages are the tool results of calls[1..m], in that order.
ResultsFor(calls, m) ==
  /\ Len(messages) >= m
  /\ \A j \in 1..m :
       LET msg == messages[Len(messages) - m + j] IN
       /\ msg.role = "tool"
       /\ msg.tool_call_id = calls[j].id
       /\ msg.name = calls[j].name

\* The step just taken was in the tool loop of a turn ...
InRound == ev.kind = "tool" \/ (ev.kind = "caught" /\ ev.calls # <<>>)
\* ... and the handler has left that loop.
RoundOver == InRound /\ hs[ev.h].pc # "tools"

Malformed(call) == JSONparse(call.arguments).threw

\* C1: the tool calls c_1..c_n of a turn are run one at a time in list order,
\* each run appends one tool message keyed to its call; once the round is over
\* the last n messages are the results of c_1..c_n in order, and only then is
\* the next completion requested.
C1_ToolRoundInOrder ==
  /\ ev.kind = "tool" =>
       /\ ResultsFor(ev.calls, ev.k)
       /\ hs[ev.h].pc = "awaitResponse" => ev.k = Len(ev.calls)
  /\ RoundOver => ResultsFor(ev.calls, Len(ev.calls))

\* C2: after a query the loop re-prompts through normal completion only after
\* a turn without tool calls, and every turn with at least one tool call is
\* followed by another completion request, without new user input.
C2_LoopStateMachine ==
  /\ ev.kind = "break" => ev.calls = <<>>
  /\ RoundOver => hs[ev.h].pc = "awaitResponse"

\* C3: a tool call whose arguments are not valid JSON gets a textual error
\* result of its own, and every sibling call of the round is still run and
\* gets its tool-result message.
C3_MalformedIsolated ==
  (RoundOver /\ \E j \in 1..Len(ev.calls) : Malformed(ev.calls[j])) =>
    /\ ResultsFor(ev.calls, Len(ev.calls))
    /\ \A j \in 1..Len(ev.calls) :
         Malformed(ev.calls[j]) =>
           Head(messages[Len(messages) - Len(ev.calls) + j].content) = "error: "

\* C4: no two invocations of the 'line' handler are in flight at once.
C4_OneInvocationAtATime == Cardinality(InFlight) <= 1

\* C5: an exception raised while a query is processed is caught by the line
\* handler, which prompts again; the catch leaves every message of the
\* conversation in place, unchanged and in the same order. A raised exception
\* goes nowhere but to the catch, and until it is caught the conversation
\* changes only by the input lines the user enters.
C5_CaughtKeepsConversation ==
  [][/\ ev'.kind = "caught" =>
          /\ hs[ev'.h].pc # "free" /\ hs'[ev'.h].pc = "free" /\ sync' = 0
          /\ messages' = messages
     /\ \A h \in Handlers :
          hs[h].pc = "rejected" =>
            /\ hs'[h].pc # "rejected" => (ev'.kind = "caught" /\ ev'.h = h)
            /\ messages' # messages => ev'.kind \in {"clear", "thrown", "request"}]_vars

\* C5 witness: the exception of JSON.parse in the tool loop was caught with
\* the user and assistant messages in the conversation.
C5_Witness ==
  /\ ev.kind = "caught" /\ ev.src = "parse"
  /\ Len(messages) >= 2
  /\ messages[1].role = "user"

\* C6 (as stated): when requesting a completion fails for the missing key or
\* a status other than 200, the user's message is the last element of the
\* conversation.
C6_UserMessageLast ==
  (ev.kind = "caught" /\ ev.src \in {"key", "status"}) =>
    (messages # <<>> /\ Last(messages).role = "user")

\* C6 (amended): the failed request appends nothing: the failure leaves the
\* conversation as it finds it, and the handler prompts again; without the key
\* no request is ever written to the network, and the exception is raised
\* with the user's message just appended as the last element.
C6_FailedRequestAppendsNothing ==
  [][/\ ~hasKey => net' = 0
     /\ (ev'.kind = "caught" /\ ev'.src \in {"key", "status"}) =>
          /\ hs'[ev'.h].pc = "free" /\ sync' = 0
          /\ messages' = messages
     /\ ev'.kind = "thrown" =>
          /\ ~hasKey /\ net' = net
          /\ messages' = Append(messages, Last(messages'))
          /\ Last(messages').role = "user"]_vars

\* C6 witness: a status other than 200 answers the request that follows a
\* tool round, so the last message is a tool result.
C6_Witness ==
  /\ ev.kind = "caught" /\ ev.src = "status"
  /\ messages # <<>> /\ Last(messages).role = "tool"

\* ---- runTool called on its own ----
ArgValues ==
  { [kind |-> "object", given |-> TRUE], [kind |-> "object", given |-> FALSE],
    [kind |-> "null", given |-> FALSE] }

ToolEnvs ==
  { [BaseEnv EXCEPT !.exists = e, !.count = c, !.all = a] :
      e \in BOOLEAN, c \in 0..2, a \in BOOLEAN }
  \cup
  { [BaseEnv EXCEPT !.cmdOk = k, !.cmd2Ok = k2, !.streams = st, !.out = o, !.err = er] :
      k \in BOOLEAN, k2 \in BOOLEAN, st \in BOOLEAN,
      o \in {<<>>, <<"o", " ">>}, er \in {<<>>, <<"e">>} }

ToolNamesTried == DOMAIN TOOLS \cup {<<"no", "pe">>, <<>>}

InitTool ==
  /\ messages = <<>>
  /\ hs = [h \in Handlers |-> FreeH]
  /\ sync = 0
  /\ hasKey = TRUE
  /\ closed = FALSE
  /\ nCalls = 0
  /\ net = 0
  /\ \E name \in ToolNamesTried, args \in ArgValues, env \in ToolEnvs :
       ev = [kind |-> "call", name |-> name, args |-> args, env |-> env]

RunTool ==
  /\ ev.kind = "call"
  /\ ev' = [kind |-> "ran", name |-> ev.name, args |-> ev.args, env |-> ev.env,
            res |-> runTool(ev.name, ev.args, ev.env)]
  /\ UNCHANGED <<messages, hs, sync, hasKey, closed, nCalls, net>>

SpecTool == InitTool /\ [][RunTool]_vars

\* C7: runTool never throws; for a name that is not registered it gives an
\* error result and runs no handler; when the handler throws with message m
\* the result is 'error: m'; otherwise it is the handler's string.
C7_RunToolNeverThrows ==
  ev.kind = "ran" =>
    /\ ~ev.res.threw
    /\ ev.name \notin DOMAIN TOOLS =>
         ev.res.ran = "none" /\ Head(ev.res.val) = "error: "
    /\ ev.name \in DOMAIN TOOLS =>
         LET o == CallFn(TOOLS[ev.name], ev.args, ev.env) IN
         /\ ev.res.ran = TOOLS[ev.name]
         /\ ev.res.val = IF o.threw THEN <<"error: ">> \o o.val ELSE o.val

\* C7 witness: runTool has answered a name that is not registered.
C7_Witness ==
  /\ ev.kind = "ran" /\ ev.name = <<"no", "pe">>
  /\ ev.res.val = <<"error: ", "Cannot read properties of undefined (reading 'fn')">>

\* ---- one round of tool calls, over all the tools ----
RoundCalls ==
  LET C(id) == { [id |-> id, name |-> n, arguments |-> a] :
                   n \in ToolNamesTried \ {<<>>}, a \in {OBJ, <<"{", "}">>} }
  IN { <<c>> : c \in C("a") } \cup { <<c, d>> : c \in C("a"), d \in C("b") }

InitRound ==
  /\ hasKey = TRUE
  /\ closed = FALSE
  /\ nCalls = 1
  /\ net = 1
  /\ sync = 1
  /\ \E calls \in RoundCalls :
       /\ messages = <<UserMsg(<<"q">>), AssistantMsg(<<>>, calls)>>
       /\ hs = [h \in Handlers |->
                  IF h = 1 THEN [FreeH EXCEPT !.pc = "tools", !.calls = calls, !.k = 1]
                  ELSE FreeH]
       /\ ev = [kind |-> "assistant", h |-> 1, calls |-> calls, hist |-> <<>>,
                lines |-> <<>>]

NextRound == \E env \in ToolEnvs : ToolStep(1, env)

SpecRound == InitRound /\ [][NextRound]_vars

\* The failures of a tool run that C8 names.
EvFn == ev.ran
ToolFailure ==
  /\ ev.kind = "tool"
  /\ JSONparse(ev.calls[ev.k].arguments).val.given
  /\ \/ EvFn \in {"read", "edit"} /\ ~ev.env.exists
     \/ EvFn = "edit" /\ ev.env.exists /\ ~ev.env.all /\ ev.env.count > 1
     \/ EvFn \in {"bash", "diff", "undo"} /\ ~ev.env.cmdOk
     \/ EvFn = "undo" /\ ev.env.cmdOk /\ Trim(ev.env.out) # <<>> /\ ~ev.env.cmd2Ok

AppendedResult ==
  /\ messages # <<>>
  /\ Last(messages).role = "tool"
  /\ Last(messages).tool_call_id = ev.calls[ev.k].id
  /\ Last(messages).content = ev.val

\* C8 (as stated): every tool failure reaches the conversation as a
\* tool-result message whose content begins with 'error:'.
C8_FailuresBeginWithError ==
  ToolFailure => AppendedResult /\ Head(Last(messages).content) = "error: "

\* C8 (amended): every tool failure reaches the conversation as a tool-result
\* message; its content begins with 'error:' except for a failed command of
\* bash or diff whose error carries the captured streams, where the content
\* is the trimmed stdout and stderr, or '(empty)'.
C8_FailuresReachConversation ==
  ToolFailure =>
    /\ AppendedResult
    /\ IF EvFn \in {"bash", "diff"} /\ ev.env.streams
         THEN Last(messages).content = OrEmpty(Trim(ev.env.out \o ev.env.err))
         ELSE Head(Last(messages).content) = "error: "

\* C8 witness: a failed command of bash left its stderr, without prefix, as
\* the tool result.
C8_Witness ==
  /\ ToolFailure /\ EvFn = "bash"
  /\ Last(messages).content = <<"e">>

\* ---- one response stream, over all the fragment sequences ----
Payloads ==
  { [id |-> "a", name |-> <<"gl">>, arguments |-> <<"{">>],
    [id |-> NoId, name |-> <<"ob">>, arguments |-> <<"m", "}">>],
    [id |-> "b", name |-> <<>>, arguments |-> <<>>] }

AsmChunks ==
  { Chunk(<<>>, <<TC(i, p.id, p.name, p.arguments)>>) :
      i \in 0..MaxIndex, p \in Payloads }
  \cup
  { Chunk(<<"x">>, <<TC(MaxIndex, "b", <<"gl">>, <<>>), TC(0, "a", <<"ob">>, <<"{">>)>>) }

AsmBodies ==
  UNION { [1..n -> {DataLine(c) : c \in AsmChunks}] : n \in 0..MaxLines }

InitAsm ==
  /\ messages = <<UserMsg(<<"q">>)>>
  /\ hasKey = TRUE
  /\ closed = FALSE
  /\ nCalls = 1
  /\ net = 1
  /\ sync = 0
  /\ ev = [kind |-> "stream", h |-> 1]
  /\ \E body \in AsmBodies :
       hs = [h \in Handlers |->
               IF h = 1 THEN [FreeH EXCEPT !.pc = "streaming", !.rest = body]
               ELSE FreeH]

NextAsm == StreamLine(1) \/ StreamEnd(1)

SpecAsm == InitAsm /\ [][NextAsm]_vars

\* What the fragments received say, independently of the accumulators.
RECURSIVE FragsAt(_, _)
FragsAt(hist, i) ==
  IF hist = <<>> THEN <<>>
  ELSE (IF Head(hist).index = i THEN <<Head(hist)>> ELSE <<>>) \o FragsAt(Tail(hist), i)

RECURSIVE ConcatNames(_)
ConcatNames(fs) == IF fs = <<>> THEN <<>> ELSE Head(fs).name \o ConcatNames(Tail(fs))

RECURSIVE ConcatArgs(_)
ConcatArgs(fs) == IF fs = <<>> THEN <<>> ELSE Head(fs).arguments \o ConcatArgs(Tail(fs))

Indices(hist) == {hist[j].index : j \in 1..Len(hist)}

Expected(hist, i) ==
  [id |-> FragsAt(hist, i)[1].id,
   name |-> ConcatNames(FragsAt(hist, i)),
   arguments |-> ConcatArgs(FragsAt(hist, i))]

\* The j-th smallest element of the set S of numbers.
Nth(S, j) == CHOOSE x \in S : Cardinality({y \in S : y < x}) = j - 1

ExpectedList(hist) ==
  [j \in 1..Cardinality(Indices(hist)) |-> Expected(hist, Nth(Indices(hist), j))]

\* C9: for every index seen in the turn, the assembled name and arguments
\* are the concatenation, in arrival order, of the fragments of that index,
\* and the id is that of the first fragment of the index.
C9_AssemblyConcatenates ==
  \A h \in Handlers :
    hs[h].pc = "streaming" =>
      /\ DOMAIN hs[h].toolCalls = Indices(hs[h].hist)
      /\ \A i \in DOMAIN hs[h].toolCalls :
           hs[h].toolCalls[i] = Expected(hs[h].hist, i)

\* C9 witness: one call whose arguments were split over two chunks, with a
\* fragment of another index between them, is assembled with the full text.
C9_Witness ==
  /\ hs[1].pc = "streaming"
  /\ Len(hs[1].hist) = 3
  /\ hs[1].hist[1].index = 0 /\ hs[1].hist[2].index = 1 /\ hs[1].hist[3].index = 0
  /\ hs[1].toolCalls[0] = [id |-> "a", name |-> GLOB, arguments |-> OBJ]

\* C10: at the end of the stream the finished list has exactly one entry for
\* each index that received a fragment, in increasing index order, without
\* holes, whatever the arrival order.
C10_CompactionDenseInIndexOrder ==
  ev.kind \in {"assistant", "break"} => ev.calls = ExpectedList(ev.hist)

\* C10 witness: fragments that arrived at indices [2, 0] have given a list of
\* two calls, the call of index 0 first.
C10_Witness ==
  /\ ev.kind = "assistant"
  /\ Len(ev.hist) = 2 /\ ev.hist[1].index = 2 /\ ev.hist[2].index = 0
  /\ Len(ev.calls) = 2
  /\ ev.calls[1] = Expected(ev.hist, 0) /\ ev.calls[2] = Expected(ev.hist, 2)
  /\ ev.calls[1] # ev.calls[2]

\* ---- one response stream, over all the sequences of lines ----
BadJson == [text |-> "data: ", json |-> FALSE, chunk |-> NoDelta]

SseLines ==
  { OtherLine(""), OtherLine("data: [DONE]"), OtherLine(": ping"), BadJson,
    DataLine(Chunk(<<"x">>, <<>>)), DataLine(Chunk(<<"y">>, <<>>)),
    DataLine(Chunk(<<"z">>, <<TC(0, "a", GLOB, OBJ)>>)), DataLine(NoDelta) }

SseBodies == UNION { [1..n -> SseLines] : n \in 0..MaxLines }

InitSse ==
  /\ messages = <<UserMsg(<<"q">>)>>
  /\ hasKey = TRUE
  /\ closed = FALSE
  /\ nCalls = 1
  /\ net = 1
  /\ sync = 0
  /\ ev = [kind |-> "stream", h |-> 1]
  /\ \E body \in SseBodies :
       hs = [h \in Handlers |->
               IF h = 1 THEN [FreeH EXCEPT !.pc = "streaming", !.rest = body]
               ELSE FreeH]

NextSse == StreamLine(1) \/ StreamEnd(1)

SpecSse == InitSse /\ [][NextSse]_vars

\* What the lines read say, independently of the decoder and the accumulators.
IsEvent(line) == line.text = "data: " /\ line.json

RECURSIVE Events(_)
Events(lines) ==
  IF lines = <<>> THEN <<>>
  ELSE (IF IsEvent(Head(lines)) THEN <<Head(lines).chunk>> ELSE <<>>)
       \o Events(Tail(lines))

RECURSIVE ContentOf(_)
ContentOf(chunks) ==
  IF chunks = <<>> THEN <<>> ELSE Head(chunks).content \o ContentOf(Tail(chunks))

RECURSIVE FragmentsOf(_)
FragmentsOf(chunks) ==
  IF chunks = <<>> THEN <<>> ELSE Head(chunks).tool_calls \o FragmentsOf(Tail(chunks))

RECURSIVE UpToTerminator(_)
UpToTerminator(lines) ==
  IF lines = <<>> \/ Head(lines).text = "data: [DONE]" THEN <<>>
  ELSE <<Head(lines)>> \o UpToTerminator(Tail(lines))

\* C11: a 'data: ' line whose payload is not valid JSON is reported and
\* skipped: the step yields nothing, the stream stays open and the turn goes
\* on; what the turn has accumulated is always what the valid lines read so
\* far carry, in their order, the lines after a bad one included.
C11_BadJsonLineSkipped ==
  [][\A h \in Handlers :
       /\ (hs[h].pc = "streaming" /\ hs[h].rest # <<>> /\ hs'[h] # hs[h]
            /\ Head(hs[h].rest) = BadJson) =>
             /\ ev'.kind = "line" /\ ev'.act = "report"
             /\ hs'[h] = [hs[h] EXCEPT !.rest = Tail(@), !.lines = Append(@, BadJson)]
             /\ messages' = messages
       /\ hs'[h].pc = "streaming" =>
             /\ hs'[h].fullContent = ContentOf(Events(hs'[h].lines))
             /\ hs'[h].hist = FragmentsOf(Events(hs'[h].lines))]_vars

\* C11 witness: a valid line, a line with a bad payload and another valid
\* line were read, and the text of both valid lines is accumulated.
C11_Witness ==
  /\ hs[1].pc = "streaming"
  /\ hs[1].lines = <<DataLine(Chunk(<<"x">>, <<>>)), BadJson,
                     DataLine(Chunk(<<"y">>, <<>>))>>
  /\ hs[1].fullContent = <<"x", "y">>

\* C12: the line 'data: [DONE]' ends the stream: nothing carried by a line
\* after it is added to the text or the tool calls of the turn.
C12_TerminatorEndsStream ==
  \A h \in Handlers :
    hs[h].pc = "streaming" =>
      /\ hs[h].fullContent = ContentOf(Events(UpToTerminator(hs[h].lines)))
      /\ hs[h].hist = FragmentsOf(Events(UpToTerminator(hs[h].lines)))

\* C13: the end of a stream appends exactly one assistant message, whose
\* content is the concatenation of the content deltas of the stream in
\* arrival order, and which has tool_calls exactly when a tool call was
\* assembled; no other step appends an assistant message.
C13_OneAssistantMessagePerStream ==
  [][/\ ev'.kind \in {"assistant", "break"} =>
          LET m == Last(messages') IN
          /\ hs[ev'.h].pc = "streaming" /\ hs[ev'.h].rest = <<>>
          /\ ev'.lines = hs[ev'.h].lines
          /\ messages' = Append(messages, m)
          /\ m.role = "assistant"
          /\ m.content = ContentOf(Events(ev'.lines))
          /\ "tool_calls" \in DOMAIN m <=> FragmentsOf(Events(ev'.lines)) # <<>>
          /\ "tool_calls" \in DOMAIN m <=> hs[ev'.h].toolCalls # <<>>
          /\ "tool_calls" \in DOMAIN m => m.tool_calls = ev'.calls /\ ev'.calls # <<>>
     /\ (Len(messages') > Len(messages) /\ Last(messages').role = "assistant") =>
          ev'.kind \in {"assistant", "break"}]_vars

\* C13 witness: a stream that carried text and a tool call has ended, and
\* the assistant message holds the text and the call.
C13_Witness ==
  /\ ev.kind = "assistant"
  /\ Last(messages).role = "assistant"
  /\ Last(messages).content = <<"x">>
  /\ Len(Last(messages).tool_calls) = 1

\* ---- edit called on its own, over texts, targets and replacements ----
Texts == UNION { [1..n -> {"a", "b", "."}] : n \in 0..MaxText }

OldStrings ==
  { <<>>, <<"a">>, <<"b">>, <<".">>, <<"a", "a">>, <<"a", "b">>, <<"a", ".">> }

NewStrings ==
  { <<>>, <<"a">>, <<"b">>, <<"c">>, <<"a", "b">>, <<"$">>, <<"$", "$">>,
    <<"$", "&">>, <<"c", "$", "&">> }

InitEdit ==
  /\ messages = <<>>
  /\ hs = [h \in Handlers |-> FreeH]
  /\ sync = 0
  /\ hasKey = TRUE
  /\ closed = FALSE
  /\ nCalls = 0
  /\ net = 0
  /\ \E text \in Texts, old \in OldStrings, newStr \in NewStrings, all \in BOOLEAN :
       ev = [kind |-> "editCall", text |-> text, old |-> old, new |-> newStr,
             all |-> all]

RunEdit ==
  /\ ev.kind = "editCall"
  /\ ev' = [kind |-> "edited", text |-> ev.text, old |-> ev.old, new |-> ev.new,
            all |-> ev.all, res |-> editText(ev.text, ev.old, ev.new, ev.all)]
  /\ UNCHANGED <<messages, hs, sync, hasKey, closed, nCalls, net>>

SpecEdit == InitEdit /\ [][RunEdit]_vars

\* The number of occurrences of old in text, counted from left to right
\* without overlap.
RECURSIVE Occ(_, _)
Occ(text, old) ==
  IF old = <<>> THEN Len(text) + 1
  ELSE IF Len(text) < Len(old) THEN 0
  ELSE IF IsPrefix(old, text)
    THEN 1 + Occ(SubSeq(text, Len(old) + 1, Len(text)), old)
  ELSE Occ(Tail(text), old)

\* Every occurrence of old, from left to right, replaced by newStr as it is.
RECURSIVE AllReplaced(_, _, _)
AllReplaced(text, old, newStr) ==
  IF Len(text) < Len(old) THEN text
  ELSE IF IsPrefix(old, text)
    THEN newStr \o AllReplaced(SubSeq(text, Len(old) + 1, Len(text)), old, newStr)
  ELSE <<Head(text)>> \o AllReplaced(Tail(text), old, newStr)

Chars(s) == {s[j] : j \in 1..Len(s)}

Edited == ev.kind = "edited"

\* C14: edit fails without writing: when old does not occur the result is the
\* not-found error, when old occurs N > 1 times and all is not set the result
\* is the error that names N; the file is unchanged in both cases, and these
\* are the only cases in which edit answers with an error.
C14_EditFailsWithoutWriting ==
  Edited =>
    LET N == Occ(ev.text, ev.old) IN
    /\ N = 0 =>
         /\ ev.res.val = <<"error: ", "old_string not found">>
         /\ ev.res.disk = ev.text
    /\ (N > 1 /\ ~ev.all) =>
         /\ ev.res.val = <<"error: ", "old_string appears ", NumStr[N],
                           " times, must be unique (use all=true)">>
         /\ ev.res.disk = ev.text
    /\ Head(ev.res.val) = "error: " => (N = 0 \/ (N > 1 /\ ~ev.all))

\* C14 witness: old occurs twice, all is not set, and edit has answered with
\* the count, leaving the file as it was.
C14_Witness ==
  /\ Edited /\ ~ev.all
  /\ ev.text = <<"a", ".", "a", ".">> /\ ev.old = <<"a", ".">>
  /\ ev.res.val[3] = "2"
  /\ ev.res.disk = ev.text

\* C15: for a non-empty old that occurs exactly once, edit without all writes
\* prefix + new + suffix, where text = prefix + old + suffix, with new taken
\* literally whatever its characters.
C15_SingleReplacementLiteral ==
  (Edited /\ ~ev.all /\ ev.old # <<>> /\ Occ(ev.text, ev.old) = 1) =>
    /\ ev.res.val = <<"ok">>
    /\ \E i \in 1..Len(ev.text) :
         /\ OccursAt(ev.text, ev.old, i)
         /\ ev.res.disk = SubSeq(ev.text, 1, i - 1) \o ev.new
                           \o SubSeq(ev.text, i + Len(ev.old), Len(ev.text))

\* C16 (as stated): with all set and old occurring N >= 1 times, every
\* occurrence is replaced by new and the result written; afterwards old does
\* not occur in the file unless new, which then is not empty, brings it back.
C16_NoOccurrenceLeft ==
  (Edited /\ ev.all /\ ev.old # <<>> /\ Occ(ev.text, ev.old) >= 1) =>
    /\ ev.res.val = <<"ok">>
    /\ ev.res.disk = AllReplaced(ev.text, ev.old, ev.new)
    /\ Occ(ev.res.disk, ev.old) = 0 \/ ev.new # <<>>

\* C16 (amended): with all set and a non-empty old occurring N >= 1 times,
\* every occurrence, from left to right without overlap, is replaced by new
\* taken literally, and the result is written; old does not occur afterwards
\* when new is not empty and shares no character with old.
C16_AllOccurrencesReplaced ==
  (Edited /\ ev.all /\ ev.old # <<>> /\ Occ(ev.text, ev.old) >= 1) =>
    /\ ev.res.val = <<"ok">>
    /\ ev.res.disk = AllReplaced(ev.text, ev.old, ev.new)
    /\ (ev.new # <<>> /\ Chars(ev.new) \cap Chars(ev.old) = {}) =>
         Occ(ev.res.disk, ev.old) = 0

\* C16 witness: two occurrences were replaced by a text with a dollar sign,
\* which is written as it is.
C16_Witness ==
  /\ Edited /\ ev.all
  /\ ev.text = <<"a", "b", "a">> /\ ev.old = <<"a">> /\ ev.new = <<"$", "&">>
  /\ ev.res.disk = <<"$", "&", "b", "$", "&">>

\* ---- glob called on its own, over trees, roots and patterns ----
FileEntry(name, kind, mtime) ==
  [name |-> name, kind |-> kind, mtime |-> mtime, dir |-> NoDir]

\* The current directory: a.t (of any kind), abt, the directory d with a.t
\* and c.j in it, and b.t, in this order.
Tree(kind, t1, t2, t3, dok) ==
  [ok |-> TRUE,
   entries |->
     << FileEntry(<<"a", ".", "t">>, kind, t1),
        FileEntry(<<"a", "b", "t">>, "file", 1),
        [name |-> <<"d">>, kind |-> "dir", mtime |-> 1,
         dir |-> [ok |-> dok,
                  entries |-> << FileEntry(<<"a", ".", "t">>, "file", t2),
                                 FileEntry(<<"c", ".", "j">>, "file", 1) >>]],
        FileEntry(<<"b", ".", "t">>, "file", t3) >>]

Trees ==
  { Tree(kind, t1, t2, t3, dok) :
      kind \in {"file", "fifo", "noent"}, t1 \in 1..MaxTime, t2 \in 1..MaxTime,
      t3 \in 1..MaxTime, dok \in BOOLEAN }

GlobPatterns ==
  { <<"*", ".", "t">>, <<"*", "*", ".", "t">>, <<"*", "*", "/", "*", ".", "t">>,
    <<"?", ".", "t">>, <<"a", ".", "t">>, <<"a", "?", "t">>, <<"*">>,
    <<"d", "/", "*">>, <<"d", "?", "*", ".", "?">> }

BasePaths == { <<".">>, <<"d">>, <<"x">> }

InitGlob ==
  /\ messages = <<>>
  /\ hs = [h \in Handlers |-> FreeH]
  /\ sync = 0
  /\ hasKey = TRUE
  /\ closed = FALSE
  /\ nCalls = 0
  /\ net = 0
  /\ \E root \in Trees, base \in BasePaths, pat \in GlobPatterns :
       ev = [kind |-> "globCall", root |-> root, path |-> base, pat |-> pat]

RunGlob ==
  /\ ev.kind = "globCall"
  /\ ev' = [kind |-> "globbed", root |-> ev.root, path |-> ev.path, pat |-> ev.pat,
            res |-> globTree(ev.root, ev.path, ev.pat)]
  /\ UNCHANGED <<messages, hs, sync, hasKey, closed, nCalls, net>>

SpecGlob == InitGlob /\ [][RunGlob]_vars

\* The entries that are not directories and that statSync answers for, in
\* the directories that readdirSync lists under base: path is the path from
\* the current directory, rel the path from base.
EntriesOf(node) ==
  IF node.ok THEN {node.entries[j] : j \in 1..Len(node.entries)} ELSE {}

Leaves(node) == {e \in EntriesOf(node) : e.kind \in {"file", "fifo"}}

Found(root, base) ==
  LET top == DirAt(root, base) IN
  { [path |-> pathJoin(base, e.name), rel |-> e.name, kind |-> e.kind,
     mtime |-> e.mtime] : e \in Leaves(top) }
  \cup
  UNION { { [path |-> pathJoin(pathJoin(base, d.name), e.name),
             rel |-> d.name \o <<"/">> \o e.name, kind |-> e.kind,
             mtime |-> e.mtime] : e \in Leaves(d.dir) } :
          d \in {x \in EntriesOf(top) : x.kind = "dir"} }

\* The paths of a result text, one per line.
PathsOf(text) == IF text = <<"none">> THEN <<>> ELSE split(text, <<"\n">>)

Globbed == ev.kind = "globbed"

\* The paths returned: each names an entry of one of the kinds given, found
\* under the root, whose path matches; none twice; newest first; and every
\* such entry is returned, whatever else could not be listed or stat'd.
GlobReturns(kinds) ==
  LET out == PathsOf(ev.res)
      found == Found(ev.root, ev.path)
      MtimeOf(p) == (CHOOSE f \in found : f.path = p).mtime
  IN /\ \A j \in 1..Len(out) :
          \E f \in found :
            f.path = out[j] /\ f.kind \in kinds /\ matchPattern(f.path, ev.pat)
     /\ \A i, j \in 1..Len(out) : i # j => out[i] # out[j]
     /\ \A i, j \in 1..Len(out) : i < j => MtimeOf(out[i]) >= MtimeOf(out[j])
     /\ \A f \in found :
          (f.kind \in kinds /\ matchPattern(f.path, ev.pat)) =>
            \E j \in 1..Len(out) : out[j] = f.path
     /\ ev.res = <<"none">> <=>
          ~\E f \in found : f.kind \in kinds /\ matchPattern(f.path, ev.pat)
     /\ ev.res # <<>>

\* C17 (as stated): glob returns only regular files whose path matches the
\* pattern, each once, newest first, joined by newlines, or 'none'; entries
\* that cannot be listed or stat'd are skipped without ending the walk.
C17_GlobRegularFilesNewestFirst == Globbed => GlobReturns({"file"})

\* C17 (amended): glob returns the entries that are not directories (regular
\* files, and FIFOs, sockets and devices as well) whose path matches the
\* pattern, each once, newest first, joined by newlines, or 'none'; entries
\* that cannot be listed or stat'd are skipped without ending the walk.
C17_GlobNonDirectoriesNewestFirst == Globbed => GlobReturns({"file", "fifo"})

\* C17 witness: a.t could not be stat'd, and the walk went on: b.t, newer
\* and met later than d/a.t, comes first in the result.
C17_Witness ==
  /\ Globbed /\ ev.path = <<".">>
  /\ ev.root.entries[1].kind = "noent"
  /\ ev.res = <<"b", ".", "t", "\n", "d", "/", "a", ".", "t">>

\* What a glob pattern matches: '**' any run of characters, '*' any run
\* without a separator, '?' one character, any other character itself.
RECURSIVE GlobMatches(_, _)
GlobMatches(pat, str) ==
  IF pat = <<>> THEN str = <<>>
  ELSE IF Len(pat) >= 2 /\ pat[1] = "*" /\ pat[2] = "*"
    THEN \E k \in 0..Len(str) :
           GlobMatches(Tail(Tail(pat)), SubSeq(str, k + 1, Len(str)))
  ELSE IF pat[1] = "*"
    THEN \E k \in 0..Len(str) :
           /\ \A j \in 1..k : str[j] # "/"
           /\ GlobMatches(Tail(pat), SubSeq(str, k + 1, Len(str)))
  ELSE /\ str # <<>>
       /\ pat[1] = "?" \/ pat[1] = str[1]
       /\ GlobMatches(Tail(pat), Tail(str))

\* C18: glob tests the path of each file relative to the root of the walk:
\* the files returned are those found under the root whose path from the
\* root matches the pattern, with '.' literal, '*' within one segment, '**'
\* across segments and '?' for one character.
C18_GlobMatchesFromWalkRoot ==
  Globbed =>
    {PathsOf(ev.res)[j] : j \in 1..Len(PathsOf(ev.res))}
      = {f.path : f \in {g \in Found(ev.root, ev.path) : GlobMatches(ev.pat, g.rel)}}

\* ---- grep called on its own, over trees with few and many matching lines ----
XLines(n) == [j \in 1..n |-> <<"x", " ">>]

MixedLines(n) == [j \in 1..n |-> IF j % 2 = 1 THEN <<"y">> ELSE <<" ", "x", "y", " ", " ">>]

FileLines ==
  { <<<<>>>>, XLines(1), XLines(HitLimit - 1), XLines(HitLimit), XLines(HitLimit + 1),
    MixedLines(HitLimit + 1) }

GrepEntry(name, kind, lines) ==
  [name |-> name, kind |-> kind, lines |-> lines, dir |-> NoDir]

\* The current directory: the file a, the directory d with the files b and
\* c in it, and the file e, in this order.
GrepTree(kind, la, lb, dok) ==
  [ok |-> TRUE,
   entries |->
     << GrepEntry(<<"a">>, kind, la),
        [name |-> <<"d">>, kind |-> "dir", lines |-> <<>>,
         dir |-> [ok |-> dok,
                  entries |-> << GrepEntry(<<"b">>, "file", lb),
                                 GrepEntry(<<"c">>, "unreadable", XLines(1)) >>]],
        GrepEntry(<<"e">>, "file", XLines(1)) >>]

GrepTrees ==
  { GrepTree(kind, la, lb, dok) :
      kind \in {"file", "unreadable", "noent"}, la \in FileLines, lb \in FileLines,
      dok \in BOOLEAN }

GrepPatterns == { <<"x">>, <<"x", ".">>, <<>> }

InitGrep ==
  /\ messages = <<>>
  /\ hs = [h \in Handlers |-> FreeH]
  /\ sync = 0
  /\ hasKey = TRUE
  /\ closed = FALSE
  /\ nCalls = 0
  /\ net = 0
  /\ \E root \in GrepTrees, base \in BasePaths, re \in GrepPatterns :
       ev = [kind |-> "grepCall", root |-> root, path |-> base, pat |-> re]

RunGrep ==
  /\ ev.kind = "grepCall"
  /\ ev' = [kind |-> "grepped", root |-> ev.root, path |-> ev.path, pat |-> ev.pat,
            res |-> grepTree(ev.root, ev.path, ev.pat)]
  /\ UNCHANGED <<messages, hs, sync, hasKey, closed, nCalls, net>>

SpecGrep == InitGrep /\ [][RunGrep]_vars

\* The hits of one readable file, and of the files under base, in walk
\* order: the lines that the expression matches, each as path:number:content
\* with the number counted from 1 and the content without trailing blanks.
HitsOf(filepath, lines, re) ==
  LET nums == {j \in 1..Len(lines) : RegExpSearch(re, lines[j])}
  IN [k \in 1..Cardinality(nums) |->
        filepath \o <<":">> \o Decimal(Nth(nums, k)) \o <<":">>
          \o TrimEnd(lines[Nth(nums, k)])]

RECURSIVE HitsIn(_, _, _, _)
HitsIn(dir, node, re, depth) ==
  IF ~node.ok \/ depth = 0 THEN <<>>
  ELSE LET OfEntry(e) ==
             IF e.kind = "file" THEN HitsOf(pathJoin(dir, e.name), e.lines, re)
             ELSE IF e.kind = "dir" THEN HitsIn(pathJoin(dir, e.name), e.dir, re, depth - 1)
             ELSE <<>>
           n == Len(node.entries)
       IN (IF n >= 1 THEN OfEntry(node.entries[1]) ELSE <<>>)
          \o (IF n >= 2 THEN OfEntry(node.entries[2]) ELSE <<>>)
          \o (IF n >= 3 THEN OfEntry(node.entries[3]) ELSE <<>>)

Min(a, b) == IF a < b THEN a ELSE b

Grepped == ev.kind = "grepped"

\* C19: grep returns at most 50 lines: the first 50 hits in walk order, all
\* of them when there are fewer, each path:lineNumber:content with a 1-based
\* number and no trailing whitespace, and 'none' when there is no hit; files
\* that cannot be read are skipped and the walk goes on.
C19_GrepFirstFiftyHits ==
  Grepped =>
    LET all == HitsIn(ev.path, DirAt(ev.root, ev.path), ev.pat, 2)
        out == PathsOf(ev.res)
    IN /\ Len(out) <= HitLimit
       /\ out = SubSeq(all, 1, Min(Len(all), HitLimit))
       /\ ev.res = <<"none">> <=> all = <<>>
       /\ ev.res # <<>>

\* C19 witness: the file a has 49 hits, the file d/b after it has 51, the
\* file d/c cannot be read: 50 lines are returned, the last one is the first
\* hit of d/b.
C19_Witness ==
  /\ Grepped /\ ev.path = <<".">> /\ ev.pat = <<"x">>
  /\ Len(ev.root.entries[1].lines) = HitLimit - 1
  /\ ev.root.entries[1].kind = "file"
  /\ Len(PathsOf(ev.res)) = HitLimit
  /\ PathsOf(ev.res)[HitLimit] = <<"d", "/", "b", ":", "1", ":", "x">>
  /\ PathsOf(ev.res)[HitLimit - 1] = <<"a", ":", "4", "9", ":", "x">>

\* C20: bash never throws and never returns the empty string: after a
\* command that succeeds it returns the trimmed stdout, after any failure,
\* the error that carries no stdout and stderr strings included, the trimmed
\* stdout and stderr, and '(empty)' in place of an empty text.
C20_BashNeverThrows ==
  (ev.kind = "ran" /\ ev.res.ran = "bash" /\ ev.args.given) =>
    /\ ~bash(ev.args, ev.env).threw
    /\ ev.res.val # <<>>
    /\ ev.res.val = IF ev.env.cmdOk THEN OrEmpty(Trim(ev.env.out))
                    ELSE IF ev.env.streams THEN OrEmpty(Trim(ev.env.out \o ev.env.err))
                    ELSE <<"(empty)">>

\* ---- undo called on its own, over work trees ----
GitPaths == {"f", "g"}

WorkTrees ==
  [repo : BOOLEAN, lock : BOOLEAN,
   files : [GitPaths -> {"clean", "modified", "untracked"}]]

InitUndo ==
  /\ messages = <<>>
  /\ hs = [h \in Handlers |-> FreeH]
  /\ sync = 0
  /\ hasKey = TRUE
  /\ closed = FALSE
  /\ nCalls = 0
  /\ net = 0
  /\ \E filepath \in GitPaths, wt \in WorkTrees :
       ev = [kind |-> "undoCall", path |-> filepath, wt |-> wt]

RunUndo ==
  /\ ev.kind = "undoCall"
  /\ ev' = [kind |-> "undone", path |-> ev.path, wt |-> ev.wt,
            res |-> undoGit(ev.path, ev.wt)]
  /\ UNCHANGED <<messages, hs, sync, hasKey, closed, nCalls, net>>

SpecUndo == InitUndo /\ [][RunUndo]_vars

Undone == ev.kind = "undone"

\* C21: undo asks for the status of the path first; with an empty status it
\* answers 'no uncommitted changes', runs no checkout and leaves the work
\* tree as it is; only with a non-empty status does it run the checkout, and
\* answers 'restored' when that succeeds; when either command fails the
\* answer is a text that begins with 'error:', and the work tree is unchanged.
C21_UndoChecksStatusFirst ==
  Undone =>
    LET state == ev.wt.files[ev.path]
        res == ev.res
    IN /\ res.cmds[1] = "status"
       /\ (ev.wt.repo /\ state = "clean") =>
            /\ res.val = <<ev.path, " has no uncommitted changes">>
            /\ res.cmds = <<"status">>
            /\ res.wt = ev.wt
       /\ res.cmds # <<"status">> =>
            /\ res.cmds = <<"status", "checkout">>
            /\ ev.wt.repo /\ state # "clean"
       /\ (ev.wt.repo /\ state = "modified" /\ ~ev.wt.lock) =>
            /\ res.val = <<"restored ", ev.path, " from git repository">>
            /\ res.wt = [ev.wt EXCEPT !.files[ev.path] = "clean"]
       /\ (~ev.wt.repo \/ (state # "clean" /\ (ev.wt.lock \/ state = "untracked"))) =>
            /\ Head(res.val) = "error: "
            /\ res.wt = ev.wt

\* C21 witness: the status of f is empty while g is modified: undo of f has
\* answered 'no uncommitted changes' and has run the status command only.
C21_Witness ==
  /\ Undone /\ ev.path = "f"
  /\ ev.wt.files["f"] = "clean" /\ ev.wt.files["g"] = "modified"
  /\ ev.res.val = <<"f", " has no uncommitted changes">>
  /\ ev.res.cmds = <<"status">>
  /\ ev.res.wt = ev.wt

\* ---- read called on its own, over files, offsets and limits ----
ReadFiles == UNION { [1..n -> {<<"a">>, <<>>}] : n \in 1..MaxFileLines }

NumArgs ==
  {[given |-> FALSE, n |-> 0]} \cup {[given |-> TRUE, n |-> n] : n \in 0..(MaxFileLines + 1)}

InitRead ==
  /\ messages = <<>>
  /\ hs = [h \in Handlers |-> FreeH]
  /\ sync = 0
  /\ hasKey = TRUE
  /\ closed = FALSE
  /\ nCalls = 0
  /\ net = 0
  /\ \E lines \in ReadFiles, offset \in NumArgs, limit \in NumArgs :
       ev = [kind |-> "readCall", lines |-> lines, offset |-> offset, limit |-> limit]

RunRead ==
  /\ ev.kind = "readCall"
  /\ ev' = [kind |-> "read", lines |-> ev.lines, offset |-> ev.offset,
            limit |-> ev.limit, res |-> readLines(ev.lines, ev.offset, ev.limit)]
  /\ UNCHANGED <<messages, hs, sync, hasKey, closed, nCalls, net>>

SpecRead == InitRead /\ [][RunRead]_vars

\* The lines of a result text.
LinesOf(text) == IF text = <<>> THEN <<>> ELSE split(text, <<"\n">>)

\* C22: read returns the lines at the 0-based positions offset up to, not
\* including, offset + limit, in order, each after its 1-based number;
\* offset is 0 when absent, limit the remaining length when absent; with a
\* limit given, at most limit lines are returned.
C22_ReadReturnsRange ==
  ev.kind = "read" =>
    LET n == Len(ev.lines)
        off == IF ev.offset.given THEN ev.offset.n ELSE 0
        lim == IF ev.limit.given THEN ev.limit.n
               ELSE IF n > off THEN n - off ELSE 0
        hi == Min(off + lim, n)
        count == IF hi > off THEN hi - off ELSE 0
        out == LinesOf(ev.res)
    IN /\ out = [k \in 1..count |->
                  padStart(Decimal(off + k), 4) \o <<"| ">> \o ev.lines[off + k]]
       /\ ev.limit.given => Len(out) <= ev.limit.n

\* ---- the shape of the conversation ----
HasToolCalls(msg) == msg.role = "assistant" /\ "tool_calls" \in DOMAIN msg

\* The assistant message at position i is followed by exactly the results of
\* its calls, in their order.
BlockAt(msgs, i) ==
  LET calls == msgs[i].tool_calls
      n == Len(calls)
  IN /\ i + n <= Len(msgs)
     /\ \A j \in 1..n :
          /\ msgs[i + j].role = "tool"
          /\ msgs[i + j].tool_call_id = calls[j].id
     /\ i + n < Len(msgs) => msgs[i + n + 1].role # "tool"

\* The tool message at position p is one of the results that follow an
\* assistant message with tool calls.
InBlock(msgs, p) ==
  \E i \in 1..(p - 1) :
    /\ HasToolCalls(msgs[i])
    /\ p <= i + Len(msgs[i].tool_calls)
    /\ \A q \in (i + 1)..p : msgs[q].role = "tool"

\* C23: whenever the loop is awaiting input, every assistant message with n
\* tool calls is followed at once by exactly n tool messages with the ids of
\* the calls in order, and every tool message belongs to such a block.
C23_ToolCallBlocks ==
  AllFree =>
    /\ \A i \in 1..Len(messages) : HasToolCalls(messages[i]) => BlockAt(messages, i)
    /\ \A p \in 1..Len(messages) : messages[p].role = "tool" => InBlock(messages, p)

\* C24: the conversation is empty or begins with a user message, whatever
\* the interleaving of input lines and stream events.
C24_BeginsWithUserMessage ==
  messages = <<>> \/ messages[1].role = "user"


\* ---- an event the loop body cannot read ----
\* The line yields an event without choices[0].delta, or with a tool-call
\* fragment that has no function.
BadEvent(line) ==
  /\ DecodeLine(line).act = "yield"
  /\ \/ ~line.chunk.valid
     \/ \E i \in 1..Len(line.chunk.tool_calls) : ~line.chunk.tool_calls[i].hasFn

\* C25: a streamed event without choices[0].delta, or with a tool-call
\* fragment without function, raises an exception that ends the turn: it is
\* caught, no assistant message is appended, the accumulators are discarded,
\* no tool runs and no request follows, and the loop awaits input with the
\* conversation as it was when the request was sent.
C25_BadEventEndsTurn ==
  [][\A h \in Handlers :
       (/\ hs[h].pc = "streaming" /\ hs[h].rest # <<>>
        /\ hs'[h] # hs[h]
        /\ BadEvent(Head(hs[h].rest))) =>
         /\ ev'.kind = "caught" /\ ev'.h = h /\ ev'.src = "chunk"
         /\ hs'[h] = FreeH /\ sync' = 0
         /\ messages' = messages
         /\ messages' = hs[h].sent
         /\ nCalls' = nCalls /\ net' = net]_vars

\* C25 witness: the bad event arrived in the stream that follows a tool
\* round; the turn ended with the tool result as the last message.
C25_Witness ==
  /\ ev.kind = "caught" /\ ev.src = "chunk"
  /\ messages = ev.sent
  /\ messages # <<>> /\ Last(messages).role = "tool"

====
